---------------------------- MODULE Spec2Model ----------------------------
(***************************************************************************)
(* Model of the chat route of patient_rag: POST /api/chat                  *)
(* (src/app/api/chat/route.ts, lines 18-143).                              *)
(*                                                                         *)
(* A request is handled by one asynchronous invocation of POST.  The       *)
(* invocation is suspended at each await (req.json(), embeddings.create,   *)
(* clientPromise, aggregate().toArray()); the code between two awaits runs *)
(* without interruption.  Each action below is the code from one await     *)
(* to the next one (or to the return of the handler).                      *)
(*                                                                         *)
(* JavaScript values are tagged records, text is a sequence of one-        *)
(* character strings, so that trim, filter and join are computed.          *)
(***************************************************************************)
EXTENDS Integers, Sequences, FiniteSets, TLC

(***************************************************************************)
(* Bounds of the model.                                                    *)
(***************************************************************************)
NumRequests == 2      \* requests in flight in the concurrent scenario
MaxTurns == 3         \* turns of a conversation
MaxParts == 2         \* segments of the last turn's parts array
NumDocs == 4          \* documents of the index in the retrieval scenario
SmallDocs == 1        \* documents of the index in the other scenarios
MaxTokens == 1        \* token increments observed on a response stream

(***************************************************************************)
(* Program constants.                                                      *)
(***************************************************************************)
limit == 5            \* $vectorSearch.limit
numCandidates == 100  \* $vectorSearch.numCandidates

(***************************************************************************)
(* JavaScript values.                                                      *)
(***************************************************************************)
Undefined == [t |-> "undefined"]
Null == [t |-> "null"]
Str(s) == [t |-> "string", v |-> s]
Arr(a) == [t |-> "array", v |-> a]

IsString(x) == x.t = "string"
IsArray(x) == x.t = "array"

\* JavaScript truthiness of the values above.
Truthy(x) ==
  CASE x.t = "undefined" -> FALSE
    [] x.t = "null" -> FALSE
    [] x.t = "string" -> x.v # <<>>
    [] OTHER -> TRUE

\* String.prototype.trim on a sequence of characters.
RECURSIVE TrimStart(_)
TrimStart(s) ==
  IF s # <<>> /\ Head(s) = " " THEN TrimStart(Tail(s)) ELSE s

RECURSIVE TrimEnd(_)
TrimEnd(s) ==
  IF s # <<>> /\ s[Len(s)] = " " THEN TrimEnd(SubSeq(s, 1, Len(s) - 1)) ELSE s

Trim(s) == TrimEnd(TrimStart(s))

\* Array.prototype.join(' ') on an array of strings.
RECURSIVE JoinSpace(_)
JoinSpace(ss) ==
  IF ss = <<>> THEN <<>>
  ELSE IF Len(ss) = 1 THEN ss[1]
  ELSE ss[1] \o <<" ">> \o JoinSpace(Tail(ss))

\* Faulty variant: the type of the segment is not tested.
RECURSIVE TextPartsAnyType(_)
TextPartsAnyType(ps) ==
  IF ps = <<>> THEN <<>>
  ELSE IF Truthy(Head(ps).text)
       THEN <<Head(ps).text.v>> \o TextPartsAnyType(Tail(ps))
       ELSE TextPartsAnyType(Tail(ps))

\* parts.filter(part => part.type === 'text' && part.text).map(part => part.text)
RECURSIVE TextParts(_)
TextParts(ps) ==
  IF ps = <<>> THEN <<>>
  ELSE IF Head(ps).type = "text" /\ Truthy(Head(ps).text)
       THEN <<Head(ps).text.v>> \o TextParts(Tail(ps))
       ELSE TextParts(Tail(ps))

(***************************************************************************)
(* Thrown values and the messages of the handler.                          *)
(***************************************************************************)
Err(msg) == [isError |-> TRUE, message |-> msg]
NonError == [isError |-> FALSE]

MsgInvalidFormat == "Invalid message format: missing content or parts"
MsgEmptyContent == "Empty message content"
MsgDefault == "Failed to process request"
\* Errors raised by the runtime inside the try block.
MsgJsonSyntax == "Unexpected end of JSON input"
MsgNoMessages == "Cannot read properties of undefined (reading 'length')"
MsgNoLastMessage == "Cannot read properties of undefined (reading 'content')"
MsgNoEmbeddingData == "Cannot read properties of undefined (reading 'embedding')"
\* Errors raised by the collaborators.
MsgUpstream(svc) ==
  CASE svc = "embedding" -> "embedding request failed"
    [] svc = "connect" -> "database connection failed"
    [] svc = "retrieval" -> "aggregate failed"
    [] svc = "generation" -> "generation could not be started"

(***************************************************************************)
(* Lines 26-37: the query of the last message.  The result is either the   *)
(* value assigned to userQuery or the value thrown.                        *)
(***************************************************************************)
\* Faulty variant: a turn without content and parts yields the empty query.
ExtractQueryLenient(lastMessage) ==
  IF lastMessage.content # Undefined /\ lastMessage.content # Null
  THEN [ok |-> TRUE, v |-> lastMessage.content]
  ELSE IF Truthy(lastMessage.parts) /\ IsArray(lastMessage.parts)
  THEN [ok |-> TRUE, v |-> Str(JoinSpace(TextParts(lastMessage.parts.v)))]
  ELSE [ok |-> TRUE, v |-> Str(<<>>)]

\* Faulty variant: the parts list takes precedence over the content.
ExtractQuerySwapped(lastMessage) ==
  IF Truthy(lastMessage.parts) /\ IsArray(lastMessage.parts)
  THEN [ok |-> TRUE, v |-> Str(JoinSpace(TextParts(lastMessage.parts.v)))]
  ELSE IF lastMessage.content # Undefined /\ lastMessage.content # Null
  THEN [ok |-> TRUE, v |-> lastMessage.content]
  ELSE [ok |-> FALSE, thrown |-> Err(MsgInvalidFormat)]

ExtractQuery(lastMessage) ==
  IF lastMessage.content # Undefined /\ lastMessage.content # Null
  THEN [ok |-> TRUE, v |-> lastMessage.content]
  ELSE IF Truthy(lastMessage.parts) /\ IsArray(lastMessage.parts)
  THEN [ok |-> TRUE, v |-> Str(JoinSpace(TextParts(lastMessage.parts.v)))]
  ELSE [ok |-> FALSE, thrown |-> Err(MsgInvalidFormat)]

\* Faulty variant: the query is not trimmed before it is tested.
IsEmptyQueryNoTrim(userQuery) == ~Truthy(userQuery)

\* Line 39: !userQuery || !userQuery.trim()
IsEmptyQuery(userQuery) ==
  \/ ~Truthy(userQuery)
  \/ ~Truthy(Str(Trim(userQuery.v)))

(***************************************************************************)
(* Lines 92-111: the messages handed to the generation service.            *)
(***************************************************************************)
CoreContent(m) ==
  IF Truthy(m.content) THEN m.content.v
  ELSE IF Truthy(m.parts) /\ IsArray(m.parts)
  THEN JoinSpace(TextParts(m.parts.v))
  ELSE <<>>

\* Faulty variant: the system turns are not removed.
CoreMessagesUnfiltered(ms) ==
  [k \in 1..Len(ms) |-> [role |-> ms[k].role, content |-> CoreContent(ms[k])]]

RECURSIVE CoreMessages(_)
CoreMessages(ms) ==
  IF ms = <<>> THEN <<>>
  ELSE IF Head(ms).role # "system"
       THEN <<[role |-> Head(ms).role, content |-> CoreContent(Head(ms))]>>
              \o CoreMessages(Tail(ms))
       ELSE CoreMessages(Tail(ms))

(***************************************************************************)
(* The documents of embedded_movies and the result of the aggregation      *)
(* pipeline (lines 54-76).                                                 *)
(***************************************************************************)
DigitChar == <<"0", "1", "2", "3", "4", "5", "6", "7", "8", "9">>

\* String(n) for a natural number, as the template literal of line 80 does.
RECURSIVE NumberToString(_)
NumberToString(n) ==
  IF n < 10 THEN <<DigitChar[n + 1]>>
  ELSE NumberToString(n \div 10) \o <<DigitChar[(n % 10) + 1]>>

\* ObjectId.prototype.toString: the hexadecimal form of the identifier.
ObjectIdToString(id) == <<"507f1f77bcf86cd7994390">> \o NumberToString(10 + id.oid)

\* The i-th stored document.  Stored documents differ in which of fullplot,
\* plot and poster they carry.
StoredDoc(i) ==
  LET k == (i - 1) % 4 IN
  [ _id |-> [oid |-> i],
    title |-> <<"M">> \o NumberToString(i),
    fullplot |-> CASE k = 0 -> Str(<<"F">> \o NumberToString(i))
                   [] k = 1 -> Undefined
                   [] k = 2 -> Str(<<>>)
                   [] OTHER -> Undefined,
    plot |-> IF k = 3 THEN Undefined ELSE Str(<<"P">> \o NumberToString(i)),
    year |-> 1990 + i,
    poster |-> IF k % 2 = 0 THEN Str(<<"poster">> \o NumberToString(i)) ELSE Undefined ]

\* vectorSearchScore of the result at rank k, in thousandths.
ScoreAt(k) == 1000 - 50 * k

\* $project of lines 65-72 applied to the document ranked k.
Projected(d, k) ==
  [ _id |-> d._id, title |-> d.title, fullplot |-> d.fullplot, plot |-> d.plot,
    year |-> d.year, poster |-> d.poster, score |-> ScoreAt(k) ]

\* The sequences of distinct elements of S of length n.
RECURSIVE Arrangements(_, _)
Arrangements(S, n) ==
  IF n = 0 THEN {<<>>}
  ELSE UNION {{<<x>> \o a : a \in Arrangements(S \ {x}, n - 1)} : x \in S}

Min(a, b) == IF a < b THEN a ELSE b

\* What $vectorSearch can return from an index holding the documents 1..n:
\* at most `limit` distinct documents, in the order of their similarity to
\* the query vector, the score decreasing with the rank.
ResultLists(n) ==
  UNION {{[k \in 1..len |-> Projected(StoredDoc(a[k]), k)] : a \in Arrangements(1..n, len)}
           : len \in 0..Min(n, limit)}

(***************************************************************************)
(* Lines 78-88: the context and the system prompt.  Text is a sequence of  *)
(* chunks; a literal of the template is one chunk.                         *)
(***************************************************************************)
\* `${x}` for a value that may be undefined.
Interpolate(x) == IF x.t = "string" THEN x.v ELSE <<x.t>>

\* movie.fullplot || movie.plot
PlotOf(movie) == IF Truthy(movie.fullplot) THEN movie.fullplot ELSE movie.plot

\* Faulty variant: the paragraph always shows the short plot.
ContextEntryShortPlot(movie) ==
  <<"Title: ">> \o movie.title \o <<" (">> \o NumberToString(movie.year)
    \o <<")\nPlot: ">> \o Interpolate(movie.plot) \o <<"\n">>

ContextEntry(movie) ==
  <<"Title: ">> \o movie.title \o <<" (">> \o NumberToString(movie.year)
    \o <<")\nPlot: ">> \o Interpolate(PlotOf(movie)) \o <<"\n">>

RECURSIVE JoinEntries(_)
JoinEntries(es) ==
  IF es = <<>> THEN <<>>
  ELSE IF Len(es) = 1 THEN es[1]
  ELSE es[1] \o <<"\n---\n">> \o JoinEntries(Tail(es))

Context(movies) == JoinEntries([k \in 1..Len(movies) |-> ContextEntry(movies[k])])

SystemPrompt(movies) ==
  <<"You are a helpful movie assistant. Use the following movie context to answer the user's question.\nIf the answer is not in the context, say you don't know based on the available information.\nAlways mention the movie title when discussing it.\n\nContext:\n">>
    \o Context(movies)

(***************************************************************************)
(* Lines 119-126: the sources attached to the response.                    *)
(***************************************************************************)
SanitizedMovie(movie) ==
  [ _id |-> ObjectIdToString(movie._id),
    title |-> movie.title,
    fullplot |-> PlotOf(movie),
    year |-> movie.year,
    poster |-> movie.poster,
    score |-> movie.score ]

\* Faulty variant: the sources are listed in the reverse order.
SanitizedMoviesReversed(movies) ==
  [k \in 1..Len(movies) |-> SanitizedMovie(movies[Len(movies) + 1 - k])]

SanitizedMovies(movies) == [k \in 1..Len(movies) |-> SanitizedMovie(movies[k])]

(***************************************************************************)
(* Request bodies.                                                         *)
(***************************************************************************)
Turn(role, content, parts) == [role |-> role, content |-> content, parts |-> parts]
Part(type, text) == [type |-> type, text |-> text]
Body(turns) == [json |-> TRUE, messages |-> Arr(turns)]
MalformedBody == [json |-> FALSE]
BodyWithoutMessages == [json |-> TRUE, messages |-> Undefined]

\* The sequences over S of length at most n.
RECURSIVE SeqsUpTo(_, _)
SeqsUpTo(S, n) ==
  IF n = 0 THEN {<<>>}
  ELSE LET shorter == SeqsUpTo(S, n - 1)
       IN shorter \cup {<<x>> \o q : x \in S, q \in {t \in shorter : Len(t) = n - 1}}

Contents ==
  {Undefined, Null, Str(<<>>), Str(<<" ">>), Str(<<"a">>), Str(<<" ", "a", " ">>)}

PartKinds ==
  { Part("text", Str(<<"a">>)), Part("text", Str(<<"b">>)), Part("text", Str(<<>>)),
    Part("text", Str(<<" ">>)), Part("text", Undefined), Part("other", Str(<<"a">>)) }

PartsValues ==
  {Undefined, Str(<<"x">>)} \cup {Arr(ps) : ps \in SeqsUpTo(PartKinds, MaxParts)}

\* route.test.ts, lines 206-217: text "Hello", text "World" and another segment.
PartsTestBody ==
  Body(<<Turn("user", Undefined,
              Arr(<<Part("text", Str(<<"a">>)), Part("text", Str(<<"b">>)),
                    Part("other", Undefined)>>))>>)

\* Bodies of one turn: every shape of the last turn.
SingleTurnBodies ==
  {MalformedBody, BodyWithoutMessages, Body(<<>>), PartsTestBody}
    \cup {Body(<<Turn("user", c, p)>>) : c \in Contents, p \in PartsValues}

HistoryTurns ==
  { Turn("system", Str(<<"s">>), Undefined),
    Turn("system", Undefined, Arr(<<Part("text", Str(<<"s">>))>>)),
    Turn("assistant", Str(<<"b">>), Undefined),
    Turn("assistant", Undefined, Undefined),
    Turn("user", Undefined, Arr(<<Part("text", Str(<<"a">>)), Part("other", Undefined)>>)),
    Turn("user", Str(<<>>), Arr(<<Part("text", Str(<<"a">>))>>)) }

LastTurns ==
  { Turn("user", Str(<<"a">>), Undefined),
    Turn("system", Undefined, Arr(<<Part("text", Str(<<"b">>))>>)) }

\* Conversations: a history followed by the turn that carries the query.
ConversationBodies ==
  {Body(h \o <<t>>) : h \in SeqsUpTo(HistoryTurns, MaxTurns - 1), t \in LastTurns}

\* The body of the r-th of the requests that are handled concurrently: the
\* requests state different queries, in either format.
ConcurrentBody(r) ==
  CASE r % 3 = 1 -> Body(<<Turn("user", Str(<<"a">>), Undefined)>>)
    [] r % 3 = 2 -> Body(<<Turn("system", Str(<<"s">>), Undefined),
                           Turn("user", Undefined, Arr(<<Part("text", Str(<<"b">>))>>))>>)
    [] OTHER -> Body(<<Turn("user", Str(<<"b", " ", "a">>), Undefined)>>)

(***************************************************************************)
(* State.                                                                  *)
(***************************************************************************)
VARIABLES
  req,            \* req[r]: the body of request r
  indexSize,      \* the number of documents of the vector index
  clientPromise,  \* the state of the MongoDB client promise of the module
  pc,             \* pc[r]: the await at which the handler of r is suspended
  messages,       \* the locals of the handler of r
  userQuery,
  embedding,
  movies,
  calls,          \* calls[r]: the calls of r to the collaborators and their returns
  attached,       \* attached[r]: the options of each toUIMessageStreamResponse call
  response,       \* response[r]: the Response returned by POST
  tokens          \* tokens[r]: token increments sent on the response stream

vars == <<req, indexSize, clientPromise, pc, messages, userQuery, embedding, movies,
          calls, attached, response, tokens>>

Requests == DOMAIN pc

NoResponse == [status |-> 0]

InitHandlers(bodies, n) ==
  /\ req \in bodies
  /\ indexSize = n
  /\ clientPromise = [state |-> "pending"]
  /\ pc = [r \in DOMAIN req |-> "start"]
  /\ messages = [r \in DOMAIN req |-> Undefined]
  /\ userQuery = [r \in DOMAIN req |-> Undefined]
  /\ embedding = [r \in DOMAIN req |-> Undefined]
  /\ movies = [r \in DOMAIN req |-> Undefined]
  /\ calls = [r \in DOMAIN req |-> <<>>]
  /\ attached = [r \in DOMAIN req |-> <<>>]
  /\ response = [r \in DOMAIN req |-> NoResponse]
  /\ tokens = [r \in DOMAIN req |-> 0]

\* POST has been invoked for every request.  Four scenarios: one request
\* with every shape of the last turn; one request with a conversation; one
\* request against an index of NumDocs documents; NumRequests requests with
\* different queries handled concurrently.
Init ==
  \/ InitHandlers([{1} -> SingleTurnBodies], SmallDocs)
  \/ InitHandlers([{1} -> ConversationBodies], SmallDocs)
  \/ InitHandlers({[r \in {1} |-> ConcurrentBody(r)]}, NumDocs)
  \/ InitHandlers({[r \in 1..NumRequests |-> ConcurrentBody(r)]}, SmallDocs)

(***************************************************************************)
(* Lines 135-142: the catch block.  Whatever is thrown inside the try      *)
(* block ends the handler with the error response.                         *)
(***************************************************************************)
ErrorResponse(thrown) ==
  [ status |-> 500,
    contentType |-> "application/json",
    body |-> [error |-> IF thrown.isError THEN thrown.message ELSE MsgDefault] ]

\* Faulty variant: only Error objects are answered; anything else leaves the
\* handler without a response.
CatchErrorsOnly(r, thrown) ==
  /\ response' = [response EXCEPT ![r] = IF thrown.isError THEN ErrorResponse(thrown) ELSE @]
  /\ pc' = [pc EXCEPT ![r] = "done"]

Catch(r, thrown) ==
  /\ response' = [response EXCEPT ![r] = ErrorResponse(thrown)]
  /\ pc' = [pc EXCEPT ![r] = "done"]

\* What a collaborator can reject with.
Rejections(svc) == {Err(MsgUpstream(svc)), NonError}

CallEvent(svc, arg) == [ev |-> "call", svc |-> svc, arg |-> arg]
ReturnEvent(svc, ok, val) == [ev |-> "return", svc |-> svc, ok |-> ok, val |-> val]

(***************************************************************************)
(* Lines 20-41: from the parsed body to the validated query.               *)
(***************************************************************************)
Validated(body) ==
  IF ~body.json
  THEN [ok |-> FALSE, messages |-> Undefined, userQuery |-> Undefined,
        thrown |-> Err(MsgJsonSyntax)]
  ELSE IF ~IsArray(body.messages)
  THEN [ok |-> FALSE, messages |-> body.messages, userQuery |-> Undefined,
        thrown |-> Err(MsgNoMessages)]
  ELSE IF body.messages.v = <<>>
  THEN [ok |-> FALSE, messages |-> body.messages, userQuery |-> Undefined,
        thrown |-> Err(MsgNoLastMessage)]
  ELSE LET lastMessage == body.messages.v[Len(body.messages.v)]
           q == ExtractQuery(lastMessage)
       IN IF ~q.ok
          THEN [ok |-> FALSE, messages |-> body.messages, userQuery |-> Undefined,
                thrown |-> q.thrown]
          ELSE IF IsEmptyQuery(q.v)
          THEN [ok |-> FALSE, messages |-> body.messages, userQuery |-> q.v,
                thrown |-> Err(MsgEmptyContent)]
          ELSE [ok |-> TRUE, messages |-> body.messages, userQuery |-> q.v,
                thrown |-> NonError]

(***************************************************************************)
(* Lines 20-47: req.json() has settled; the handler runs to the embedding  *)
(* call or to the catch block.                                             *)
(***************************************************************************)
AfterJson(r) ==
  /\ pc[r] = "start"
  /\ LET v == Validated(req[r]) IN
       /\ messages' = [messages EXCEPT ![r] = v.messages]
       /\ userQuery' = [userQuery EXCEPT ![r] = v.userQuery]
       /\ IF v.ok
          THEN /\ calls' = [calls EXCEPT ![r] = Append(@,
                    CallEvent("embedding",
                      [model |-> "text-embedding-ada-002", input |-> v.userQuery]))]
               /\ pc' = [pc EXCEPT ![r] = "awaitEmbedding"]
               /\ UNCHANGED response
          ELSE /\ Catch(r, v.thrown)
               /\ UNCHANGED calls
  /\ UNCHANGED <<req, indexSize, clientPromise, embedding, movies, attached, tokens>>

(***************************************************************************)
(* The embedding service: the vector of a text, a response without data,   *)
(* or a rejection.                                                         *)
(***************************************************************************)
VectorOf(input) == [t |-> "vector", of |-> input]

EmbeddingOutcomes(arg) ==
  { [ok |-> TRUE, val |-> [data |-> <<[embedding |-> VectorOf(arg.input)]>>]],
    [ok |-> TRUE, val |-> [data |-> <<>>]] }
    \cup {[ok |-> FALSE, val |-> e] : e \in Rejections("embedding")}

\* Faulty variant: the vector is kept in a variable of the module, shared by
\* the invocations.
AfterEmbeddingShared(r) ==
  /\ pc[r] = "awaitEmbedding"
  /\ \E out \in EmbeddingOutcomes(calls[r][Len(calls[r])].arg) :
       /\ calls' = [calls EXCEPT ![r] = Append(@, ReturnEvent("embedding", out.ok, out.val))]
       /\ IF ~out.ok
          THEN Catch(r, out.val) /\ UNCHANGED embedding
          ELSE IF out.val.data = <<>>
          THEN Catch(r, Err(MsgNoEmbeddingData)) /\ UNCHANGED embedding
          ELSE /\ embedding' = [q \in DOMAIN embedding |-> out.val.data[1].embedding]
               /\ pc' = [pc EXCEPT ![r] = "awaitClient"]
               /\ UNCHANGED response
  /\ UNCHANGED <<req, indexSize, clientPromise, messages, userQuery, movies, attached, tokens>>

\* Faulty variant: a rejection of the embedding call is swallowed and the
\* handler goes on.
AfterEmbeddingSwallows(r) ==
  /\ pc[r] = "awaitEmbedding"
  /\ \E out \in EmbeddingOutcomes(calls[r][Len(calls[r])].arg) :
       /\ calls' = [calls EXCEPT ![r] = Append(@, ReturnEvent("embedding", out.ok, out.val))]
       /\ embedding' = [embedding EXCEPT ![r] =
            IF out.ok /\ out.val.data # <<>> THEN out.val.data[1].embedding ELSE Undefined]
       /\ pc' = [pc EXCEPT ![r] = "awaitClient"]
       /\ UNCHANGED response
  /\ UNCHANGED <<req, indexSize, clientPromise, messages, userQuery, movies, attached, tokens>>

(***************************************************************************)
(* Lines 44-51: embeddings.create has settled; the handler reads the       *)
(* vector and awaits the client promise.                                   *)
(***************************************************************************)
AfterEmbedding(r) ==
  /\ pc[r] = "awaitEmbedding"
  /\ \E out \in EmbeddingOutcomes(calls[r][Len(calls[r])].arg) :
       /\ calls' = [calls EXCEPT ![r] = Append(@, ReturnEvent("embedding", out.ok, out.val))]
       /\ IF ~out.ok
          THEN Catch(r, out.val) /\ UNCHANGED embedding
          ELSE IF out.val.data = <<>>
          THEN Catch(r, Err(MsgNoEmbeddingData)) /\ UNCHANGED embedding
          ELSE /\ embedding' = [embedding EXCEPT ![r] = out.val.data[1].embedding]
               /\ pc' = [pc EXCEPT ![r] = "awaitClient"]
               /\ UNCHANGED response
  /\ UNCHANGED <<req, indexSize, clientPromise, messages, userQuery, movies, attached, tokens>>

(***************************************************************************)
(* Line 3: the client promise of the module settles once, for every        *)
(* request.                                                                *)
(***************************************************************************)
SettleClient ==
  /\ clientPromise.state = "pending"
  /\ clientPromise' \in {[state |-> "fulfilled"]}
                          \cup {[state |-> "rejected", reason |-> e] : e \in Rejections("connect")}
  /\ UNCHANGED <<req, indexSize, pc, messages, userQuery, embedding, movies, calls,
                 attached, response, tokens>>

(***************************************************************************)
(* Lines 51-76: the client promise has settled; the handler builds the     *)
(* pipeline and starts the aggregation.                                    *)
(***************************************************************************)
Pipeline(queryVector) ==
  [ index |-> "vector_index", path |-> "plot_embedding", queryVector |-> queryVector,
    numCandidates |-> numCandidates, limit |-> limit ]

AfterClient(r) ==
  /\ pc[r] = "awaitClient"
  /\ clientPromise.state # "pending"
  /\ IF clientPromise.state = "rejected"
     THEN /\ Catch(r, clientPromise.reason)
          /\ UNCHANGED calls
     ELSE /\ calls' = [calls EXCEPT ![r] = Append(@,
                 CallEvent("retrieval", Pipeline(embedding[r])))]
          /\ pc' = [pc EXCEPT ![r] = "awaitRetrieval"]
          /\ UNCHANGED response
  /\ UNCHANGED <<req, indexSize, clientPromise, messages, userQuery, embedding, movies,
                 attached, tokens>>

(***************************************************************************)
(* The document index and the generation service.                          *)
(***************************************************************************)
RetrievalOutcomes(n) ==
  {[ok |-> TRUE, val |-> ms] : ms \in ResultLists(n)}
    \cup {[ok |-> FALSE, val |-> e] : e \in Rejections("retrieval")}

\* streamText returns its result or throws while it is set up.
GenerationOutcomes ==
  {[ok |-> TRUE, val |-> "StreamTextResult"]}
    \cup {[ok |-> FALSE, val |-> e] : e \in Rejections("generation")}

StreamResponse ==
  [ status |-> 200,
    contentType |-> "text/event-stream",
    body |-> [stream |-> "ui-message-stream"] ]

\* Lines 113-117: the argument of streamText.
StreamTextArg(ms, msgs) ==
  [ model |-> "gpt-3.5-turbo",
    system |-> SystemPrompt(ms),
    messages |-> CoreMessages(msgs) ]

\* Faulty variant: the sources are cut to the best candidate while the prompt
\* is built from all of them.
ResponseOptionsTopOne(ms) ==
  [data |-> [sources |-> SanitizedMovies(SubSeq(ms, 1, Min(1, Len(ms))))]]

\* Lines 129-133: the argument of toUIMessageStreamResponse.
ResponseOptions(ms) == [data |-> [sources |-> SanitizedMovies(ms)]]

\* Faulty variant: an empty result list is treated as an error.
AfterAggregateRejectsEmpty(r) ==
  /\ pc[r] = "awaitRetrieval"
  /\ \E out \in RetrievalOutcomes(indexSize) :
       IF ~out.ok
       THEN /\ calls' = [calls EXCEPT ![r] = Append(@, ReturnEvent("retrieval", FALSE, out.val))]
            /\ Catch(r, out.val)
            /\ UNCHANGED <<movies, attached>>
       ELSE IF out.val = <<>>
       THEN /\ calls' = [calls EXCEPT ![r] = Append(@, ReturnEvent("retrieval", TRUE, out.val))]
            /\ Catch(r, Err("No movies found"))
            /\ UNCHANGED <<movies, attached>>
       ELSE /\ movies' = [movies EXCEPT ![r] = Arr(out.val)]
            /\ \E gen \in GenerationOutcomes :
                 /\ calls' = [calls EXCEPT ![r] = @ \o
                      << ReturnEvent("retrieval", TRUE, out.val),
                         CallEvent("generation", StreamTextArg(out.val, messages[r].v)),
                         ReturnEvent("generation", gen.ok, gen.val) >>]
                 /\ IF gen.ok
                    THEN /\ attached' = [attached EXCEPT ![r] = Append(@, ResponseOptions(out.val))]
                         /\ response' = [response EXCEPT ![r] = StreamResponse]
                         /\ pc' = [pc EXCEPT ![r] = "done"]
                    ELSE /\ Catch(r, gen.val)
                         /\ UNCHANGED attached
  /\ UNCHANGED <<req, indexSize, clientPromise, messages, userQuery, embedding, tokens>>

(***************************************************************************)
(* Lines 76-133: toArray() has settled; the handler builds the prompt,     *)
(* starts the generation and returns the streaming response with the       *)
(* sources, or ends in the catch block.                                    *)
(***************************************************************************)
AfterAggregate(r) ==
  /\ pc[r] = "awaitRetrieval"
  /\ \E out \in RetrievalOutcomes(indexSize) :
       IF ~out.ok
       THEN /\ calls' = [calls EXCEPT ![r] = Append(@, ReturnEvent("retrieval", FALSE, out.val))]
            /\ Catch(r, out.val)
            /\ UNCHANGED <<movies, attached>>
       ELSE /\ movies' = [movies EXCEPT ![r] = Arr(out.val)]
            /\ \E gen \in GenerationOutcomes :
                 /\ calls' = [calls EXCEPT ![r] = @ \o
                      << ReturnEvent("retrieval", TRUE, out.val),
                         CallEvent("generation", StreamTextArg(out.val, messages[r].v)),
                         ReturnEvent("generation", gen.ok, gen.val) >>]
                 /\ IF gen.ok
                    THEN /\ attached' = [attached EXCEPT ![r] = Append(@, ResponseOptions(out.val))]
                         /\ response' = [response EXCEPT ![r] = StreamResponse]
                         /\ pc' = [pc EXCEPT ![r] = "done"]
                    ELSE /\ Catch(r, gen.val)
                         /\ UNCHANGED attached
  /\ UNCHANGED <<req, indexSize, clientPromise, messages, userQuery, embedding, tokens>>

(***************************************************************************)
(* The stream of a returned response carries one more token increment.     *)
(***************************************************************************)
StreamToken(r) ==
  /\ pc[r] = "done"
  /\ response[r].status = 200
  /\ tokens[r] < MaxTokens
  /\ tokens' = [tokens EXCEPT ![r] = @ + 1]
  /\ UNCHANGED <<req, indexSize, clientPromise, pc, messages, userQuery, embedding,
                 movies, calls, attached, response>>

Next ==
  \/ SettleClient
  \/ \E r \in Requests : AfterJson(r)
  \/ \E r \in Requests : AfterEmbedding(r)
  \/ \E r \in Requests : AfterClient(r)
  \/ \E r \in Requests : AfterAggregate(r)
  \/ \E r \in Requests : StreamToken(r)

Spec == Init /\ [][Next]_vars

(***************************************************************************)
(* Vocabulary of the properties.                                           *)
(***************************************************************************)
Done(r) == pc[r] = "done"
Completed(r) == response[r].status = 200
Failed(r) == response[r].status = 500

HasLastTurn(r) ==
  /\ req[r].json
  /\ IsArray(req[r].messages)
  /\ req[r].messages.v # <<>>

LastTurn(r) == req[r].messages.v[Len(req[r].messages.v)]

ContentAbsent(turn) == turn.content = Undefined \/ turn.content = Null

\* The handler's message that contains "Invalid message format", and the one
\* that contains "Empty message content".
MentionsInvalidFormat(msg) == msg = "Invalid message format: missing content or parts"
MentionsEmptyContent(msg) == msg = "Empty message content"

\* A text that is empty once leading and trailing blanks are removed.
Blank(text) == \A i \in 1..Len(text) : text[i] = " "

\* The text segments of a parts list that carry text, and their payloads
\* joined by single spaces.
IsTextSegment(p) == p.type = "text" /\ p.text.t = "string" /\ p.text.v # <<>>
TextSegments(ps) == SelectSeq(ps, IsTextSegment)

RECURSIVE SpaceJoined(_)
SpaceJoined(segs) ==
  IF segs = <<>> THEN <<>>
  ELSE IF Len(segs) = 1 THEN segs[1].text.v
  ELSE SpaceJoined(SubSeq(segs, 1, Len(segs) - 1)) \o <<" ">> \o segs[Len(segs)].text.v

CallsOf(r, svc) == SelectSeq(calls[r], LAMBDA e : e.ev = "call" /\ e.svc = svc)
ReturnsOf(r, svc) == SelectSeq(calls[r], LAMBDA e : e.ev = "return" /\ e.svc = svc)

(***************************************************************************)
(* C1.  A request whose last turn has no content (undefined or null) and   *)
(* no parts array ends with HTTP 500 and a JSON body {error} whose message *)
(* contains "Invalid message format"; the request makes no embedding,      *)
(* retrieval or generation call.                                           *)
(***************************************************************************)
C1_Case(r) ==
  /\ HasLastTurn(r)
  /\ ContentAbsent(LastTurn(r))
  /\ ~IsArray(LastTurn(r).parts)

C1_InvalidFormatFails ==
  \A r \in Requests :
    C1_Case(r) =>
      /\ calls[r] = <<>>
      /\ attached[r] = <<>>
      /\ pc[r] \in {"start", "done"}
      /\ Done(r) =>
           /\ response[r].status = 500
           /\ response[r].contentType = "application/json"
           /\ DOMAIN response[r].body = {"error"}
           /\ MentionsInvalidFormat(response[r].body.error)

C1_Witness ==
  \E r \in Requests :
    /\ C1_Case(r)
    /\ LastTurn(r).content = Null
    /\ LastTurn(r).parts # Undefined
    /\ Done(r)
    /\ Failed(r)

(***************************************************************************)
(* C2.  A request whose last turn has content, or a parts array, and whose *)
(* extracted text is empty after trimming ends with HTTP 500 and the       *)
(* message "Empty message content", never "Invalid message format"; no     *)
(* response carries both messages.                                         *)
(***************************************************************************)
C2_Case(r) ==
  /\ HasLastTurn(r)
  /\ \/ /\ IsString(LastTurn(r).content)
        /\ Blank(LastTurn(r).content.v)
     \/ /\ ContentAbsent(LastTurn(r))
        /\ IsArray(LastTurn(r).parts)
        /\ Blank(SpaceJoined(TextSegments(LastTurn(r).parts.v)))

C2_EmptyQueryFails ==
  \A r \in Requests :
    /\ C2_Case(r) =>
         /\ calls[r] = <<>>
         /\ pc[r] \in {"start", "done"}
         /\ Done(r) =>
              /\ response[r].status = 500
              /\ MentionsEmptyContent(response[r].body.error)
              /\ ~MentionsInvalidFormat(response[r].body.error)
    /\ (C1_Case(r) /\ Done(r)) => ~MentionsEmptyContent(response[r].body.error)
    /\ ~(C1_Case(r) /\ C2_Case(r))

C2_Witness ==
  \E r \in Requests :
    /\ C2_Case(r)
    /\ LastTurn(r).content = Str(<<" ">>)
    /\ IsArray(LastTurn(r).parts)
    /\ LastTurn(r).parts.v # <<>>
    /\ Done(r)
    /\ Failed(r)

(***************************************************************************)
(* C3.  When the last turn carries a non-empty content string, the query   *)
(* the handler extracts, and the text it sends to the embedding service,   *)
(* is that string unchanged, whatever parts list the turn also carries.    *)
(***************************************************************************)
C3_Case(r) ==
  /\ HasLastTurn(r)
  /\ IsString(LastTurn(r).content)
  /\ LastTurn(r).content.v # <<>>

C3_ContentIsQuery ==
  \A r \in Requests :
    C3_Case(r) =>
      /\ pc[r] # "start" => userQuery[r] = LastTurn(r).content
      /\ \A i \in 1..Len(calls[r]) :
           (calls[r][i].ev = "call" /\ calls[r][i].svc = "embedding")
             => calls[r][i].arg.input = LastTurn(r).content

C3_Witness ==
  \E r \in Requests :
    /\ C3_Case(r)
    /\ LastTurn(r).content = Str(<<" ", "a", " ">>)
    /\ IsArray(LastTurn(r).parts)
    /\ TextSegments(LastTurn(r).parts.v) # <<>>
    /\ Len(CallsOf(r, "embedding")) = 1
    /\ userQuery[r] = Str(<<" ", "a", " ">>)

(***************************************************************************)
(* C4.  When the last turn has no content and a parts list, the query is   *)
(* the payloads of the segments of type "text" with non-empty text, in     *)
(* list order, joined by single spaces; other segments contribute nothing  *)
(* and raise no error.                                                     *)
(***************************************************************************)
C4_Case(r) ==
  /\ HasLastTurn(r)
  /\ ContentAbsent(LastTurn(r))
  /\ IsArray(LastTurn(r).parts)

C4_PartsJoined ==
  \A r \in Requests :
    C4_Case(r) =>
      /\ pc[r] # "start" =>
           /\ userQuery[r] = Str(SpaceJoined(TextSegments(LastTurn(r).parts.v)))
           /\ Failed(r) /\ calls[r] = <<>> => MentionsEmptyContent(response[r].body.error)
      /\ \A i \in 1..Len(calls[r]) :
           (calls[r][i].ev = "call" /\ calls[r][i].svc = "embedding")
             => calls[r][i].arg.input = Str(SpaceJoined(TextSegments(LastTurn(r).parts.v)))

C4_Witness ==
  \E r \in Requests :
    /\ req[r] = PartsTestBody
    /\ userQuery[r] = Str(<<"a", " ", "b">>)
    /\ Len(CallsOf(r, "embedding")) = 1
    /\ Completed(r)

(***************************************************************************)
(* More vocabulary: the query a turn states, the retrieval result of a     *)
(* request, the stages that failed.                                        *)
(***************************************************************************)
StatedQuery(turn) ==
  IF IsString(turn.content) THEN turn.content
  ELSE Str(SpaceJoined(TextSegments(turn.parts.v)))

ValidQuery(r) ==
  /\ HasLastTurn(r)
  /\ \/ IsString(LastTurn(r).content)
     \/ ContentAbsent(LastTurn(r)) /\ IsArray(LastTurn(r).parts)
  /\ ~Blank(StatedQuery(LastTurn(r)).v)

HasRetrieved(r) ==
  /\ ReturnsOf(r, "retrieval") # <<>>
  /\ ReturnsOf(r, "retrieval")[1].ok

Retrieved(r) == ReturnsOf(r, "retrieval")[1].val

FailedReturn(e) ==
  /\ e.ev = "return"
  /\ \/ ~e.ok
     \/ e.svc = "embedding" /\ e.val.data = <<>>

\* A collaborator of r has failed: a call was rejected or returned no data,
\* or r found the client promise rejected.
UpstreamFailed(r) ==
  \/ \E i \in 1..Len(calls[r]) : FailedReturn(calls[r][i])
  \/ clientPromise.state = "rejected" /\ Len(calls[r]) = 2

SourceFields == {"_id", "title", "fullplot", "year", "poster", "score"}

\* The sources attached to the response of r are the retrieved documents, one
\* for one and in their order, each reduced to the six fields.
SourcesMatch(r) ==
  /\ Len(attached[r]) = 1
  /\ HasRetrieved(r)
  /\ LET S == attached[r][1].data.sources
         M == Retrieved(r)
     IN /\ Len(S) = Len(M)
        /\ \A k \in 1..Len(M) :
             /\ DOMAIN S[k] = SourceFields
             /\ S[k]._id = ObjectIdToString(M[k]._id)
             /\ S[k].title = M[k].title
             /\ S[k].fullplot = IF IsString(M[k].fullplot) /\ M[k].fullplot.v # <<>>
                                THEN M[k].fullplot ELSE M[k].plot
             /\ S[k].year = M[k].year
             /\ S[k].poster = M[k].poster
             /\ S[k].score = M[k].score
        /\ \A k \in 1..(Len(S) - 1) : S[k].score >= S[k + 1].score

(***************************************************************************)
(* C5, as stated.  Every request with a valid query is answered with HTTP  *)
(* 200 and sources that match the retrieved documents.  The code answers   *)
(* 500 when a collaborator fails.                                          *)
(***************************************************************************)
C5_AsStated ==
  \A r \in Requests :
    (ValidQuery(r) /\ Done(r)) => (response[r].status = 200 /\ SourcesMatch(r))

(***************************************************************************)
(* C5, amended.  Every request with a valid query whose embedding call,    *)
(* client promise, retrieval call and generation start all succeed is      *)
(* answered with HTTP 200, and the sources of every 200 response have the  *)
(* length and the order of the retrieved list, each element being the      *)
(* retrieved document reduced to _id (as a string), title, fullplot (the   *)
(* long synopsis, or the short plot when the long one is absent or empty), *)
(* year, poster and score.                                                 *)
(***************************************************************************)
C5_SourcesMatchRetrieved ==
  \A r \in Requests :
    /\ (ValidQuery(r) /\ Done(r) /\ ~UpstreamFailed(r)) => response[r].status = 200
    /\ response[r].status = 200 => (ValidQuery(r) /\ SourcesMatch(r))

C5_Witness ==
  \E r \in Requests :
    /\ ValidQuery(r)
    /\ Completed(r)
    /\ Len(attached[r]) = 1
    /\ LET S == attached[r][1].data.sources
       IN /\ Len(S) >= 3
          /\ S[1].title = <<"M", "2">>
          /\ S[1].fullplot = Str(<<"P", "2">>)
          /\ S[2].title = <<"M", "3">>
          /\ S[3].title = <<"M", "1">>

(***************************************************************************)
(* C6.  A successful request attaches its sources exactly once, however    *)
(* many token increments its stream has carried, and the attached sources  *)
(* are built from the candidate list from which the grounding context of   *)
(* the system prompt of that request was built; a request that is not      *)
(* successful attaches nothing.                                            *)
(***************************************************************************)
C6_OneEvidenceSet ==
  \A r \in Requests :
    /\ Completed(r) =>
         /\ Len(attached[r]) = 1
         /\ Len(CallsOf(r, "generation")) = 1
         /\ IsArray(movies[r])
         /\ movies[r].v = Retrieved(r)
         /\ CallsOf(r, "generation")[1].arg.system = SystemPrompt(movies[r].v)
         /\ attached[r][1].data.sources = SanitizedMovies(movies[r].v)
    /\ ~Completed(r) => attached[r] = <<>>

C6_Witness ==
  \E r \in Requests :
    /\ Completed(r)
    /\ tokens[r] = MaxTokens
    /\ tokens[r] > 0
    /\ Len(attached[r]) = 1
    /\ Len(movies[r].v) >= 2

(***************************************************************************)
(* C7.  Whatever the interleaving of the requests, what a request sends    *)
(* and returns is derived from its own data: the embedding input is its    *)
(* own query, the query vector is the vector returned to it, the system    *)
(* prompt and the sources are built from the documents returned to it and  *)
(* the conversation from its own turns.                                    *)
(***************************************************************************)
C7_NoLeakBetweenRequests ==
  \A r \in Requests :
    /\ \A i \in 1..Len(calls[r]) :
         LET e == calls[r][i] IN
           /\ (e.ev = "call" /\ e.svc = "embedding")
                => e.arg.input = StatedQuery(LastTurn(r))
           /\ (e.ev = "call" /\ e.svc = "retrieval")
                => e.arg.queryVector = ReturnsOf(r, "embedding")[1].val.data[1].embedding
           /\ (e.ev = "call" /\ e.svc = "generation")
                => /\ e.arg.system = SystemPrompt(Retrieved(r))
                   /\ e.arg.messages = CoreMessages(req[r].messages.v)
    /\ \A i \in 1..Len(attached[r]) :
         attached[r][i].data.sources = SanitizedMovies(Retrieved(r))

C7_Witness ==
  \E r1, r2 \in Requests :
    /\ r1 # r2
    /\ Completed(r1)
    /\ pc[r2] = "awaitRetrieval"
    /\ userQuery[r1] # userQuery[r2]
    /\ Len(ReturnsOf(r1, "embedding")) = 1
    /\ ReturnsOf(r2, "embedding")[1].val # ReturnsOf(r1, "embedding")[1].val
    /\ Retrieved(r1) # <<>>

(***************************************************************************)
(* C8.  The messages passed to the generation service hold no turn of role *)
(* "system": they are the input turns without the system turns, in their   *)
(* order and with their roles; the system prompt passed with them is built *)
(* from the retrieved documents alone.                                     *)
(***************************************************************************)
NonSystemTurns(r) == SelectSeq(req[r].messages.v, LAMBDA m : m.role # "system")

C8_NoSystemTurnProjected ==
  \A r \in Requests :
    \A i \in 1..Len(calls[r]) :
      LET e == calls[r][i] IN
        (e.ev = "call" /\ e.svc = "generation") =>
          /\ \A k \in 1..Len(e.arg.messages) : e.arg.messages[k].role # "system"
          /\ Len(e.arg.messages) = Len(NonSystemTurns(r))
          /\ \A k \in 1..Len(NonSystemTurns(r)) :
               /\ e.arg.messages[k].role = NonSystemTurns(r)[k].role
               /\ e.arg.messages[k].content = CoreContent(NonSystemTurns(r)[k])
               /\ DOMAIN e.arg.messages[k] = {"role", "content"}
          /\ e.arg.system = SystemPrompt(Retrieved(r))

C8_Witness ==
  \E r \in Requests :
    /\ Completed(r)
    /\ Len(req[r].messages.v) = 3
    /\ req[r].messages.v[1].role = "assistant"
    /\ req[r].messages.v[2].role = "system"
    /\ req[r].messages.v[3].role = "user"
    /\ Len(CallsOf(r, "generation")) = 1
    /\ Len(CallsOf(r, "generation")[1].arg.messages) = 2
    /\ CallsOf(r, "generation")[1].arg.messages[1].role = "assistant"

(***************************************************************************)
(* C9.  A request ends in exactly one of two outcomes: the streaming       *)
(* response with status 200 and the sources attached, or status 500 with   *)
(* the JSON body {error: message}.  A failure of body parsing, validation, *)
(* embedding, retrieval or generation start is caught, gives that 500      *)
(* response, is not retried and leaves no request without a response.      *)
(***************************************************************************)
CompletedOutcome(r) ==
  /\ response[r].status = 200
  /\ response[r].contentType = "text/event-stream"
  /\ Len(attached[r]) = 1

FailedOutcome(r) ==
  /\ response[r].status = 500
  /\ response[r].contentType = "application/json"
  /\ DOMAIN response[r].body = {"error"}
  /\ response[r].body.error \in STRING
  /\ attached[r] = <<>>

Services == {"embedding", "retrieval", "generation"}

C9_OneTerminalOutcome ==
  \A r \in Requests :
    /\ ~Done(r) => response[r] = NoResponse
    /\ Done(r) => (CompletedOutcome(r) \/ FailedOutcome(r))
    /\ ~(CompletedOutcome(r) /\ FailedOutcome(r))
    /\ (Done(r) /\ (~ValidQuery(r) \/ UpstreamFailed(r))) => FailedOutcome(r)
    /\ \A svc \in Services : Len(CallsOf(r, svc)) <= 1

C9_Witness ==
  \E r \in Requests :
    /\ Done(r)
    /\ FailedOutcome(r)
    /\ response[r].body.error = "Failed to process request"
    /\ Len(calls[r]) = 6
    /\ ~calls[r][6].ok

(***************************************************************************)
(* C10.  The calls of a request are made in the order embedding,           *)
(* retrieval, generation, each at most once, and each after the earlier    *)
(* ones have returned successfully; after a failure of validation,         *)
(* embedding or retrieval no further call is made.                         *)
(***************************************************************************)
CallOrder ==
  << <<"call", "embedding">>, <<"return", "embedding">>,
     <<"call", "retrieval">>, <<"return", "retrieval">>,
     <<"call", "generation">>, <<"return", "generation">> >>

C10_CallsInOrder ==
  \A r \in Requests :
    /\ Len(calls[r]) <= Len(CallOrder)
    /\ \A i \in 1..Len(calls[r]) :
         /\ <<calls[r][i].ev, calls[r][i].svc>> = CallOrder[i]
         /\ FailedReturn(calls[r][i]) => (i = Len(calls[r]) /\ Done(r) /\ Failed(r))
    /\ ~ValidQuery(r) => calls[r] = <<>>
    /\ Failed(r) => \/ calls[r] = <<>>
                    \/ FailedReturn(calls[r][Len(calls[r])])
                    \/ Len(calls[r]) = 2 /\ clientPromise.state = "rejected"

C10_Witness ==
  \E r1, r2 \in Requests :
    /\ Completed(r1)
    /\ Len(calls[r1]) = 6
    /\ Failed(r2)
    /\ Len(calls[r2]) = 4
    /\ ~calls[r2][4].ok

(***************************************************************************)
(* C11, as stated.  A request whose retrieval call returns the empty list  *)
(* does not fail: it ends with the streaming response and the empty list   *)
(* of sources.  The code answers 500 when streamText throws.               *)
(***************************************************************************)
EmptyRetrieval(r) == HasRetrieved(r) /\ Retrieved(r) = <<>>

\* The text that follows the preamble in the system prompt of the
\* generation call of r.
GroundingContext(r) == Tail(CallsOf(r, "generation")[1].arg.system)

GenerationStarted(r) ==
  /\ ReturnsOf(r, "generation") # <<>>
  /\ ReturnsOf(r, "generation")[1].ok

C11_AsStated ==
  \A r \in Requests :
    EmptyRetrieval(r) =>
      /\ Done(r)
      /\ response[r].status = 200
      /\ attached[r] = <<[data |-> [sources |-> <<>>]]>>

(***************************************************************************)
(* C11, amended.  A request whose retrieval call returns the empty list    *)
(* goes on to the generation call, made with an empty context after the    *)
(* preamble; when the generation starts, the request ends with the HTTP    *)
(* 200 streaming response and the empty list of sources; it fails only     *)
(* when the start of the generation fails, never because of the empty list.*)
(***************************************************************************)
C11_EmptyRetrievalProceeds ==
  \A r \in Requests :
    EmptyRetrieval(r) =>
      /\ Len(CallsOf(r, "generation")) = 1
      /\ Len(CallsOf(r, "generation")[1].arg.system) = 1
      /\ GroundingContext(r) = <<>>
      /\ Done(r)
      /\ GenerationStarted(r) =>
           /\ response[r].status = 200
           /\ response[r].contentType = "text/event-stream"
           /\ attached[r] = <<[data |-> [sources |-> <<>>]]>>
      /\ ~GenerationStarted(r) =>
           /\ Failed(r)
           /\ attached[r] = <<>>
           /\ FailedReturn(calls[r][Len(calls[r])])
           /\ calls[r][Len(calls[r])].svc = "generation"

C11_Witness ==
  \E r \in Requests :
    /\ EmptyRetrieval(r)
    /\ GenerationStarted(r)
    /\ Completed(r)
    /\ attached[r] = <<[data |-> [sources |-> <<>>]]>>
    /\ GroundingContext(r) = <<>>

(***************************************************************************)
(* C12.  In the messages handed to the generation call, a non-system turn  *)
(* whose content is present (not undefined, not null) is projected to that *)
(* content, the empty string included and whatever parts the turn carries; *)
(* the parts are used only when the content is absent, and a turn with     *)
(* neither is projected to the empty string.  The code tests the content   *)
(* for truthiness (line 96), so an empty content gives way to the parts.   *)
(***************************************************************************)
\* The text the strict rule of lines 27-37 takes from a turn, with the
\* empty text for a turn that has neither field.
StatedProjection(turn) ==
  IF ~ContentAbsent(turn) THEN turn.content.v
  ELSE IF IsArray(turn.parts) THEN SpaceJoined(TextSegments(turn.parts.v))
  ELSE <<>>

C12_ProjectionFollowsStrictRule ==
  \A r \in Requests :
    \A i \in 1..Len(calls[r]) :
      LET e == calls[r][i] IN
        (e.ev = "call" /\ e.svc = "generation") =>
          /\ Len(e.arg.messages) = Len(NonSystemTurns(r))
          /\ \A k \in 1..Len(e.arg.messages) :
               e.arg.messages[k].content = StatedProjection(NonSystemTurns(r)[k])

(***************************************************************************)
(* C13, as stated.  The context of the system prompt has one paragraph per *)
(* retrieved document, in their order, and each paragraph contains the     *)
(* document's title, year, synopsis and score, the synopsis being the long *)
(* one, else the short one, else a placeholder.  The code writes no score. *)
(***************************************************************************)
\* The pieces of a text between the occurrences of the chunk sep.
RECURSIVE SplitAt(_, _)
SplitAt(text, sep) ==
  LET at == {i \in 1..Len(text) : text[i] = sep} IN
    IF at = {} THEN <<text>>
    ELSE LET i == CHOOSE i \in at : \A j \in at : i <= j
         IN <<SubSeq(text, 1, i - 1)>> \o SplitAt(SubSeq(text, i + 1, Len(text)), sep)

\* The paragraphs of a context: the pieces between the "---" lines.
Paragraphs(ctx) == IF ctx = <<>> THEN <<>> ELSE SplitAt(ctx, "\n---\n")

Contains(text, sub) ==
  \E i \in 0..(Len(text) - Len(sub)) : SubSeq(text, i + 1, i + Len(sub)) = sub

Present(x) == IsString(x) /\ x.v # <<>>

\* The digits of the year and of the score (the score in thousandths).
YearText(m) == NumberToString(m.year)
ScoreText(m) == NumberToString(m.score)

C13_AsStated ==
  \A r \in Requests :
    (HasRetrieved(r) /\ CallsOf(r, "generation") # <<>>) =>
      LET P == Paragraphs(GroundingContext(r))
          M == Retrieved(r)
      IN /\ Len(P) = Len(M)
         /\ \A k \in 1..Len(M) :
              /\ Contains(P[k], M[k].title)
              /\ Contains(P[k], YearText(M[k]))
              /\ Present(M[k].fullplot) => Contains(P[k], M[k].fullplot.v)
              /\ (~Present(M[k].fullplot) /\ Present(M[k].plot))
                   => Contains(P[k], M[k].plot.v)
              /\ Contains(P[k], ScoreText(M[k]))

(***************************************************************************)
(* C13, amended.  The context of the system prompt has one paragraph per   *)
(* retrieved document, in their order, and each paragraph is the           *)
(* document's title, its year in parentheses and, on a "Plot:" line, its   *)
(* synopsis: the long one when present and not empty, else the short one,  *)
(* else the text "undefined".  No paragraph contains the score.            *)
(***************************************************************************)
StatedSynopsis(m) ==
  IF Present(m.fullplot) THEN m.fullplot.v
  ELSE IF IsString(m.plot) THEN m.plot.v
  ELSE <<"undefined">>

C13_ContextParagraphs ==
  \A r \in Requests :
    (HasRetrieved(r) /\ CallsOf(r, "generation") # <<>>) =>
      LET P == Paragraphs(GroundingContext(r))
          M == Retrieved(r)
      IN /\ Len(P) = Len(M)
         /\ \A k \in 1..Len(M) :
              /\ P[k] = <<"Title: ">> \o M[k].title \o <<" (">> \o YearText(M[k])
                          \o <<")\nPlot: ">> \o StatedSynopsis(M[k]) \o <<"\n">>
              /\ ~Contains(P[k], ScoreText(M[k]))

C13_Witness ==
  \E r \in Requests :
    /\ HasRetrieved(r)
    /\ CallsOf(r, "generation") # <<>>
    /\ Completed(r)
    /\ Len(Retrieved(r)) >= 3
    /\ Len(Paragraphs(GroundingContext(r))) = Len(Retrieved(r))
    /\ Present(Retrieved(r)[1].fullplot)
    /\ \E k \in 2..Len(Retrieved(r)) :
         /\ Retrieved(r)[k].fullplot = Undefined
         /\ Retrieved(r)[k].plot = Undefined
         /\ Contains(Paragraphs(GroundingContext(r))[k], <<"undefined">>)
    /\ \E k \in 2..Len(Retrieved(r)) :
         /\ ~Present(Retrieved(r)[k].fullplot)
         /\ Present(Retrieved(r)[k].plot)

=============================================================================
